---- MODULE Spec2Model ----
(***************************************************************************)
(* Task Tab (newtab.js + service_worker.js): the task list, the daily      *)
(* history snapshots and the streak engine of the new-tab page.            *)
(*                                                                         *)
(* Dates.  A JavaScript Date is modelled by its local calendar fields      *)
(* <<year, month(1..12), day>>; a date key ("YYYY-MM-DD") is modelled as   *)
(* the sequence of its ten characters, so that formatting, parsing and     *)
(* the default string sort() are computed as the code computes them.       *)
(* Instants are counted in hours of local time since local midnight of     *)
(* Epoch; the time zone may hold one local day of 23 or 25 hours (a        *)
(* daylight-saving change).                                                *)
(*                                                                         *)
(* Handlers.  An async handler runs from one await to the next in one      *)
(* step.  A chrome.storage.local operation takes effect when it is issued  *)
(* (a get returns the value stored then); the handler that awaits it       *)
(* resumes in a later step, and other handlers, a reopening of the page    *)
(* and local midnight may come in between.                                 *)
(*                                                                         *)
(* Service worker.  UPDATE_BADGE messages and storage change notifications *)
(* travel to the service worker on two channels, each in order; its        *)
(* listeners run like the page's handlers.                                 *)
(***************************************************************************)
EXTENDS Integers, Sequences, FiniteSets, TLC

VARIABLES
  now,           \* the clock: index of the current local day (0 = Epoch)
  tz,            \* the time zone: [day, hours], the local day that is not 24 h long
  storage,       \* chrome.storage.local: a function from the keys present to values
  dailyHistory,  \* newtab.js global `dailyHistory`
  streak,        \* what updateStreak last displayed: [current, best]
  procs,         \* the page's handler invocations in flight, each at an await
  nextId,        \* the next value crypto.randomUUID() returns
  overlaps,      \* handlers called so far while another one was in flight
  errors,        \* exceptions that ended a handler of the page (uncaught)
  swAlive,       \* the service worker exists and receives messages and notifications
  messages,      \* chrome.runtime messages on their way to the service worker
  changes,       \* chrome.storage.onChanged notifications on their way to it
  swProcs,       \* its onChanged listener invocations, each at its await
  badgeText,     \* the text of the action badge
  calendarHidden, \* calendarPanel has the class "hidden"
  calYear,       \* newtab.js global `calYear`
  calMonth,      \* newtab.js global `calMonth`
  calDays,       \* the cells of the calendar grid (children of #cal-days)
  dayDetail      \* the day-detail popup, its overlay and its task list

\* The service worker and its channels.
workerVars == <<swAlive, messages, changes, swProcs, badgeText>>

\* The calendar panel and the day-detail popup.
uiVars == <<calendarHidden, calYear, calMonth, calDays, dayDetail>>

vars == <<now, tz, storage, dailyHistory, streak, procs, nextId, overlaps, errors,
          workerVars, uiVars>>

\* ---------------------------------------------------------------- bounds

\* Last day index the clock reaches when the streak engine is run alone.
MaxDay == 5

\* Last day index the clock reaches while the page runs.
LastDay == 1

\* Handler invocations that may be in flight on the page at once.
MaxProcs == 2

\* Tasks ever created (calls of createTask).
MaxAdds == 2

\* Handlers ever called while another handler was still in flight.
MaxOverlaps == 1

\* Tasks in a stored task list that a specification starts from.
MaxTasks == 3

\* Messages and notifications on their way to the service worker, beyond
\* which no further handler is called on the page.
MaxPending == 1

\* Months the calendar is moved away from the month of Epoch.
MaxNav == 3

\* First local day of the model's window (a leap-year month end follows).
Epoch == <<2024, 2, 27>>

Days == 0..MaxDay

\* ------------------------------------------------------------- calendar

IsLeap(y) == (y % 4 = 0 /\ y % 100 # 0) \/ y % 400 = 0

DaysInMonth(y, m) ==
  IF m = 2 THEN (IF IsLeap(y) THEN 29 ELSE 28)
  ELSE IF m \in {4, 6, 9, 11} THEN 30 ELSE 31

\* d.setDate(d.getDate() + 1) on the local fields.
NextDate(d) ==
  IF d[3] < DaysInMonth(d[1], d[2]) THEN <<d[1], d[2], d[3] + 1>>
  ELSE IF d[2] < 12 THEN <<d[1], d[2] + 1, 1>>
  ELSE <<d[1] + 1, 1, 1>>

\* Mutant of PrevDate: day 0 of the month is not normalised to the last day
\* of the month before.
PrevDateNoWrap(d) == <<d[1], d[2], d[3] - 1>>

\* d.setDate(d.getDate() - 1): JavaScript normalises day 0 to the last day
\* of the previous month (and month 0 to December of the previous year).
PrevDate(d) ==
  IF d[3] > 1 THEN <<d[1], d[2], d[3] - 1>>
  ELSE IF d[2] > 1 THEN <<d[1], d[2] - 1, DaysInMonth(d[1], d[2] - 1)>>
  ELSE <<d[1] - 1, 12, 31>>

\* The local calendar date of day index n.
DateOf[n \in 0..(MaxDay + 24)] ==
  IF n = 0 THEN Epoch ELSE NextDate(DateOf[n - 1])

\* new Date(): the local fields of the current instant.
NewDate == DateOf[now]

\* ------------------------------------------------------------- date keys

Digit(n) == SubSeq(<<"0", "1", "2", "3", "4", "5", "6", "7", "8", "9">>, n + 1, n + 1)

\* String(n) for n >= 0.
RECURSIVE ToDigits(_)
ToDigits(n) == IF n < 10 THEN Digit(n) ELSE ToDigits(n \div 10) \o Digit(n % 10)

\* String(n).padStart(2, "0")
PadStart2(n) == IF Len(ToDigits(n)) < 2 THEN <<"0">> \o ToDigits(n) ELSE ToDigits(n)

\* formatDate(d): `${getFullYear()}-${month+1 padded}-${getDate() padded}`.
formatDate(d) == ToDigits(d[1]) \o <<"-">> \o PadStart2(d[2]) \o <<"-">> \o PadStart2(d[3])

\* todayString(): the same format, of new Date().
todayString == formatDate(NewDate)

\* UTF-16 code unit of the characters a key holds.
CharCode(c) ==
  CASE c = "-" -> 45
    [] c = "0" -> 48 [] c = "1" -> 49 [] c = "2" -> 50 [] c = "3" -> 51
    [] c = "4" -> 52 [] c = "5" -> 53 [] c = "6" -> 54 [] c = "7" -> 55
    [] c = "8" -> 56 [] c = "9" -> 57

\* a < b as Array.prototype.sort() compares strings by default: by code units,
\* a proper prefix first.
RECURSIVE StrLess(_, _)
StrLess(a, b) ==
  IF b = <<>> THEN FALSE
  ELSE IF a = <<>> THEN TRUE
  ELSE IF Head(a) = Head(b) THEN StrLess(Tail(a), Tail(b))
  ELSE CharCode(Head(a)) < CharCode(Head(b))

\* Insert a key into an ascending sequence.
RECURSIVE InsertSorted(_, _)
InsertSorted(k, s) ==
  IF s = <<>> THEN <<k>>
  ELSE IF StrLess(k, Head(s)) THEN <<k>> \o s
  ELSE <<Head(s)>> \o InsertSorted(k, Tail(s))

\* Array.prototype.sort() without a comparator.
RECURSIVE Sort(_)
Sort(s) == IF s = <<>> THEN <<>> ELSE InsertSorted(Head(s), Sort(Tail(s)))

\* Object.keys(obj): the keys in some order.
RECURSIVE ObjectKeys(_)
ObjectKeys(S) ==
  IF S = {} THEN <<>>
  ELSE LET k == CHOOSE x \in S : TRUE IN <<k>> \o ObjectKeys(S \ {k})

\* Decimal value of a digit sequence.
RECURSIVE ParseInt(_)
ParseInt(s) ==
  IF s = <<>> THEN 0
  ELSE 10 * ParseInt(SubSeq(s, 1, Len(s) - 1)) + (CharCode(s[Len(s)]) - 48)

\* The local fields of new Date(key + "T00:00:00").
ParseKey(key) ==
  <<ParseInt(SubSeq(key, 1, 4)), ParseInt(SubSeq(key, 6, 7)), ParseInt(SubSeq(key, 9, 10))>>

\* Index of the local day with calendar date d.
DayIndex(d) == CHOOSE n \in DOMAIN DateOf : DateOf[n] = d

\* Length in hours of local day n in the time zone.
HoursIn(n) == IF tz.day = n THEN tz.hours ELSE 24

\* Hours from local midnight of Epoch to local midnight of day n.
RECURSIVE MidnightOf(_)
MidnightOf(n) == IF n = 0 THEN 0 ELSE MidnightOf(n - 1) + HoursIn(n - 1)

\* new Date(key + "T00:00:00") as an instant, in hours (1 h = 3,600,000 ms).
ParseLocalMidnight(key) == MidnightOf(DayIndex(ParseKey(key)))

\* ---------------------------------------------------------------- streak

\* dailyHistory[key] && dailyHistory[key].allDone
IsAllDone(h, key) == key \in DOMAIN h /\ h[key].allDone

\* The while (true) loop of calculateStreak: d is the cursor.
RECURSIVE WalkBack(_, _, _)
WalkBack(h, d, current) ==
  IF IsAllDone(h, formatDate(d)) THEN WalkBack(h, PrevDate(d), current + 1)
  ELSE current

\* Mutant of CurrentStreak: today's entry not being all-done ends the walk.
CurrentStreakTodayBreaks(h) ==
  IF IsAllDone(h, todayString) THEN WalkBack(h, PrevDate(NewDate), 1) ELSE 0

\* The current streak: today is counted when all-done and skipped otherwise,
\* then the walk goes back from yesterday.
CurrentStreak(h) ==
  IF IsAllDone(h, todayString) THEN WalkBack(h, PrevDate(NewDate), 1)
  ELSE WalkBack(h, PrevDate(NewDate), 0)

\* diff === 1, diff = (curr - prev) / (1000 * 60 * 60 * 24): the two local
\* midnights are exactly 24 hours apart.
Consecutive(prevKey, currKey) ==
  ParseLocalMidnight(currKey) - ParseLocalMidnight(prevKey) = 24

\* The for loop of calculateStreak from index i (1-based) on.
RECURSIVE Scan(_, _, _, _, _)
Scan(h, allDates, i, run, best) ==
  IF i > Len(allDates) THEN best
  ELSE IF h[allDates[i]].allDone
    THEN LET r == IF i = 1 THEN 1
                  ELSE IF Consecutive(allDates[i - 1], allDates[i])
                          /\ h[allDates[i - 1]].allDone
                       THEN run + 1 ELSE 1
         IN Scan(h, allDates, i + 1, r, IF r > best THEN r ELSE best)
    ELSE Scan(h, allDates, i + 1, 0, best)

\* The best run the ascending scan finds.
ScanBest(h) == Scan(h, Sort(Sort(ObjectKeys(DOMAIN h))), 1, 0, 0)

Max(a, b) == IF a > b THEN a ELSE b

\* calculateStreak() on history h at the current instant.
calculateStreak(h) ==
  IF Len(Sort(ObjectKeys(DOMAIN h))) = 0 THEN [current |-> 0, best |-> 0]
  ELSE [current |-> CurrentStreak(h), best |-> Max(ScanBest(h), CurrentStreak(h))]

\* What the streak display holds before updateStreak has run.
NoStreak == [current |-> -1, best |-> -1]

\* updateStreak(): display calculateStreak() of the in-memory history.
updateStreak ==
  /\ streak' = calculateStreak(dailyHistory)

\* --------------------------------------------------- history entries

\* { tasks: simplified, allDone } as snapshotToday builds it.
Entry(simplified, allDone) == [tasks |-> simplified, allDone |-> allDone]

\* Sample day entries for the streak engine: an all-done day, a day with an
\* open task, a day with no tasks.
DoneEntry == Entry(<<[text |-> <<"a">>, done |-> TRUE]>>, TRUE)
OpenEntry == Entry(<<[text |-> <<"a">>, done |-> FALSE]>>, FALSE)
EmptyEntry == Entry(<<>>, FALSE)

\* Time zones: no daylight-saving change in the window, or one local day of
\* 23 or 25 hours.
NoDst == [day |-> -1, hours |-> 24]
TimeZones(days) == {NoDst} \cup [day : days, hours : {23, 25}]

\* ---------------------------------------------------------------- storage

\* storageGet(key): the stored value; Has(key) is false where it is undefined.
Has(key) == key \in DOMAIN storage

\* chrome.storage.local.set(obj): the keys of obj are written, the others kept.
storageSet(obj) ==
  storage' = [k \in DOMAIN storage \cup DOMAIN obj |->
                IF k \in DOMAIN obj THEN obj[k] ELSE storage[k]]

\* {}: the object without keys.
EmptyObject == [k \in {} |-> TRUE]

\* loadTasks(): (await storageGet("tasks")) || []
loadTasks == IF Has("tasks") THEN storage["tasks"] ELSE <<>>

\* (await storageGet("dailyHistory")) || {}
loadHistory == IF Has("dailyHistory") THEN storage["dailyHistory"] ELSE EmptyObject

\* await storageGet("badgeEnabled"), as a truth value.
badgeEnabled == Has("badgeEnabled") /\ storage["badgeEnabled"]

\* A stored value of the wrong type: the string "x".  Its characters are
\* wrapped ([char |-> c]) to tell them from task objects and history entries;
\* as an object it has the one key "0", and no property allDone.
NotAnArray == <<[char |-> "x"]>>

NotAMapping == [k \in {<<"0">>} |-> [char |-> "x", allDone |-> FALSE]]

\* v has the array methods (push, find, filter, forEach, splice).
IsArray(v) == \A i \in 1..Len(v) : "char" \notin DOMAIN v[i]

\* h is an object that takes new properties.
IsMapping(h) == \A k \in DOMAIN h : "char" \notin DOMAIN h[k]

\* ------------------------------------------------------------------ tasks

\* Texts typed into the input box, as character sequences.
Inputs == {<<" ">>, <<" ", "a", " ">>}

\* String.prototype.trim()
RECURSIVE TrimStart(_)
TrimStart(t) == IF t # <<>> /\ Head(t) = " " THEN TrimStart(Tail(t)) ELSE t

RECURSIVE TrimEnd(_)
TrimEnd(t) ==
  IF t # <<>> /\ t[Len(t)] = " " THEN TrimEnd(SubSeq(t, 1, Len(t) - 1)) ELSE t

Trim(t) == TrimEnd(TrimStart(t))

\* createTask(text); createdAt is left out: nothing reads it.
createTask(text) ==
  [id |-> nextId, text |-> Trim(text), done |-> FALSE]

\* tasks.filter((t) => !t.done).length
Remaining(tasks) == LET open(t) == ~t.done IN Len(SelectSeq(tasks, open))

\* toggleTask: the first task with that id has done flipped.
Toggled(tasks, id) ==
  IF \E i \in 1..Len(tasks) : tasks[i].id = id
    THEN LET i == CHOOSE j \in 1..Len(tasks) :
                    tasks[j].id = id /\ \A k \in 1..(j - 1) : tasks[k].id # id
         IN [tasks EXCEPT ![i].done = ~tasks[i].done]
    ELSE tasks

\* deleteTask: tasks.filter((t) => t.id !== id)
Deleted(tasks, id) == LET keep(t) == t.id # id IN SelectSeq(tasks, keep)

\* clearCompleted: tasks.filter((t) => !t.done)
Cleared(tasks) == LET keep(t) == ~t.done IN SelectSeq(tasks, keep)

\* Mutant of LastOpenIndex: the loop runs from the start of the list.
FirstOpenIndex(tasks) ==
  IF \E i \in 1..Len(tasks) : ~tasks[i].done
    THEN CHOOSE i \in 1..Len(tasks) :
           ~tasks[i].done /\ \A j \in 1..(i - 1) : tasks[j].done
    ELSE 0

\* deleteLastTask's loop: the index of the last task that is not done, or 0.
LastOpenIndex(tasks) ==
  IF \E i \in 1..Len(tasks) : ~tasks[i].done
    THEN CHOOSE i \in 1..Len(tasks) :
           ~tasks[i].done /\ \A j \in (i + 1)..Len(tasks) : tasks[j].done
    ELSE 0

\* tasks.splice(i, 1)
Splice(tasks, i) == SubSeq(tasks, 1, i - 1) \o SubSeq(tasks, i + 1, Len(tasks))

\* ------------------------------------------------------------- snapshots

\* tasks.map((t) => ({ text: t.text, done: t.done }))
Simplified(tasks) == [i \in 1..Len(tasks) |-> [text |-> tasks[i].text, done |-> tasks[i].done]]

\* Mutant of AllDone: the length test is left out.
AllDoneNoLength(tasks) == \A i \in 1..Len(tasks) : tasks[i].done

\* tasks.length > 0 && tasks.every((t) => t.done)
AllDone(tasks) == Len(tasks) > 0 /\ \A i \in 1..Len(tasks) : tasks[i].done

\* Mutant of WithToday: the entry is stored in a fresh object, the other dates
\* are dropped.
WithTodayOnly(h, today, tasks) ==
  [k \in {today} |-> Entry(Simplified(tasks), AllDone(tasks))]

\* Mutant of WithToday: the day's tasks are appended to the entry the day has.
WithTodayAppended(h, today, tasks) ==
  [k \in DOMAIN h \cup {today} |->
     IF k = today
       THEN IF today \in DOMAIN h
              THEN Entry(h[today].tasks \o Simplified(tasks),
                         h[today].allDone /\ AllDone(tasks))
              ELSE Entry(Simplified(tasks), AllDone(tasks))
       ELSE h[k]]

\* dailyHistory[today] = { tasks: simplified, allDone }
WithToday(h, today, tasks) ==
  [k \in DOMAIN h \cup {today} |->
     IF k = today THEN Entry(Simplified(tasks), AllDone(tasks)) ELSE h[k]]

\* --------------------------------------------------------------- calendar

\* A JavaScript number n is <<n>>; undefined, and the NaN that arithmetic on
\* undefined gives, are <<>>.
NotANumber == <<>>

Num(n) == <<n>>

IsNum(v) == v # NotANumber

\* new Date(y, m - 1, d).getDay(): the weekday of a calendar date, 0 = Sunday.
GetDay(y, m, d) ==
  LET t == <<0, 3, 2, 5, 0, 3, 5, 1, 4, 6, 2, 4>>
      yy == IF m < 3 THEN y - 1 ELSE y
  IN (yy + (yy \div 4) - (yy \div 100) + (yy \div 400) + t[m] + d) % 7

\* Mutant of FirstDay: the week starts on Monday.
FirstDayMonday(year, month) == (GetDay(year, month + 1, 1) + 6) % 7

\* firstDay = new Date(year, month, 1).getDay(), month in 0..11.
FirstDay(year, month) == GetDay(year, month + 1, 1)

\* daysInMonth = new Date(year, month + 1, 0).getDate()
MonthLength(year, month) == DaysInMonth(year, month + 1)

\* `${year}-${String(month + 1).padStart(2, "0")}-${String(day).padStart(2, "0")}`
DateStr(year, month, day) ==
  ToDigits(year) \o <<"-">> \o PadStart2(month + 1) \o <<"-">> \o PadStart2(day)

\* A cell before the 1st: class "cal-day empty".
EmptyCell == [day |-> 0, classes |-> {"cal-day", "empty"}, click |-> <<>>]

\* The cell of a day: its classes, and the date its click listener passes to
\* showDayDetail (<<>>: no listener).
DayCell(h, year, month, day) ==
  LET dateStr == DateStr(year, month, day)
  IN [day |-> day,
      classes |-> {"cal-day"}
                  \cup (IF dateStr = todayString THEN {"today"} ELSE {})
                  \cup (IF dateStr \in DOMAIN h
                          THEN {"has-data", IF h[dateStr].allDone THEN "all-done" ELSE "not-all-done"}
                          ELSE {}),
      click |-> IF dateStr \in DOMAIN h THEN dateStr ELSE <<>>]

\* The children renderCalendar appends to #cal-days, in order.
Cells(h, year, month) ==
  [i \in 1..(FirstDay(year, month) + MonthLength(year, month)) |->
     IF i <= FirstDay(year, month) THEN EmptyCell
     ELSE DayCell(h, year, month, i - FirstDay(year, month))]

\* renderCalendar(year, month); with a year or month that is not a number both
\* loops end at once and the grid stays empty.
renderCalendar(year, month) ==
  /\ calYear' = year
  /\ calMonth' = month
  /\ calDays' = IF IsNum(year) /\ IsNum(month)
                  THEN Cells(dailyHistory, year[1], month[1]) ELSE <<>>

\* The popup and its overlay hidden, its date and its list empty.
Closed == [popupHidden |-> TRUE, overlayHidden |-> TRUE, date |-> <<>>, tasks |-> <<>>]

\* The <li> elements showDayDetail appends: class is-done or not, and the label.
DetailItems(entry) ==
  [i \in 1..Len(entry.tasks) |-> [done |-> entry.tasks[i].done, text |-> entry.tasks[i].text]]

\* Mutant of Shown: without the test of the entry, a date that has none opens
\* the popup with an empty list.
ShownUnguarded(h, dateStr) ==
  [popupHidden |-> FALSE, overlayHidden |-> FALSE, date |-> dateStr,
   tasks |-> IF dateStr \in DOMAIN h THEN DetailItems(h[dateStr]) ELSE <<>>]

\* The popup after showDayDetail(dateStr) on history h: as it was if the date
\* has no entry; else the date (dayDetailDate), the entry's tasks, and both
\* elements visible.
Shown(h, dateStr) ==
  IF dateStr \notin DOMAIN h THEN dayDetail
  ELSE [popupHidden |-> FALSE, overlayHidden |-> FALSE, date |-> dateStr,
        tasks |-> DetailItems(h[dateStr])]

\* Mutant of PrevMonth: the year is not decremented at the wrap.
PrevMonthSameYear(year, month) ==
  IF ~IsNum(month) THEN <<year, NotANumber>>
  ELSE IF month[1] - 1 < 0 THEN <<year, Num(11)>>
  ELSE <<year, Num(month[1] - 1)>>

\* calMonth--; if (calMonth < 0) { calMonth = 11; calYear--; }
\* (undefined-- and NaN-- are NaN, and NaN < 0 is false).
PrevMonth(year, month) ==
  IF ~IsNum(month) THEN <<year, NotANumber>>
  ELSE IF month[1] - 1 < 0 THEN <<IF IsNum(year) THEN Num(year[1] - 1) ELSE NotANumber, Num(11)>>
  ELSE <<year, Num(month[1] - 1)>>

\* calMonth++; if (calMonth > 11) { calMonth = 0; calYear++; }
NextMonth(year, month) ==
  IF ~IsNum(month) THEN <<year, NotANumber>>
  ELSE IF month[1] + 1 > 11 THEN <<IF IsNum(year) THEN Num(year[1] + 1) ELSE NotANumber, Num(0)>>
  ELSE <<year, Num(month[1] + 1)>>

\* Months from the month of Epoch to the month displayed (0 if none is).
NavDistance ==
  IF IsNum(calYear) /\ IsNum(calMonth)
    THEN (12 * calYear[1] + calMonth[1]) - (12 * Epoch[1] + Epoch[2] - 1)
    ELSE 0

\* The calendar panel and the popup of a page that has just been opened.
UiInit ==
  /\ calendarHidden = TRUE
  /\ calYear = NotANumber
  /\ calMonth = NotANumber
  /\ calDays = <<>>
  /\ dayDetail = Closed

\* -------------------------------------------------------- service worker

\* chrome.storage.onChanged: a set that changes the value of a key is notified
\* to the service worker's listener, with the new value.
Notify(key, value) ==
  changes' = IF swAlive /\ (~Has(key) \/ storage[key] # value)
               THEN Append(changes, [key |-> key, newValue |-> value])
               ELSE changes

\* chrome.runtime.sendMessage(msg): delivered later if the service worker is
\* there.  If it is not, the error is caught, or rejects a promise that no
\* handler awaits: the page goes on either way.
sendMessage(msg) ==
  messages' = IF swAlive THEN Append(messages, msg) ELSE messages

\* The service worker and its channels at the start.
WorkerInit(alive) ==
  /\ swAlive = alive
  /\ messages = <<>>
  /\ changes = <<>>
  /\ swProcs = <<>>
  /\ badgeText = <<>>

\* ------------------------------------------------------------- handlers

ProcIds == 1..MaxProcs

\* A slot with no handler in it.
Idle == [kind |-> "idle", pc |-> "idle", arg |-> 0, tasks |-> <<>>,
         hist |-> EmptyObject, badge |-> "none", log |-> <<>>]

\* The handlers that change the task list.
Mutations == {"addTask", "toggleTask", "deleteTask", "clearCompleted", "deleteLastTask"}

\* Some handler is in flight.
InFlight == \E q \in ProcIds : procs[q].kind # "idle"

\* The slot a new handler invocation takes.
FreeSlot(p) == procs[p].kind = "idle" /\ \A q \in 1..(p - 1) : procs[q].kind # "idle"

\* A handler is called and runs to `await loadTasks()`: the read of the tasks
\* key is issued, and returns the value stored now.
Call(p, kind, arg) ==
  /\ FreeSlot(p)
  /\ InFlight => overlaps < MaxOverlaps
  /\ overlaps' = IF InFlight THEN overlaps + 1 ELSE overlaps
  /\ procs' = [procs EXCEPT ![p] =
       [Idle EXCEPT !.kind = kind, !.pc = "loadTasks", !.arg = arg, !.tasks = loadTasks]]
  /\ UNCHANGED <<now, tz, storage, dailyHistory, streak, nextId, errors, workerVars, uiVars>>

\* addTask(text) with a text that trims to nothing: returns at once.
addTaskBlank(text) ==
  /\ Trim(text) = <<>>
  /\ UNCHANGED vars

addTaskCall(p, text) == Trim(text) # <<>> /\ nextId <= MaxAdds /\ Call(p, "addTask", text)

toggleTaskCall(p, id) == Call(p, "toggleTask", id)

deleteTaskCall(p, id) == Call(p, "deleteTask", id)

clearCompletedCall(p) == Call(p, "clearCompleted", 0)

deleteLastTaskCall(p) == Call(p, "deleteLastTask", 0)

\* The task list a mutation handler passes to saveTasks.
Mutated(kind, arg, tasks) ==
  CASE kind = "addTask" -> Append(tasks, createTask(arg))
    [] kind = "toggleTask" -> Toggled(tasks, arg)
    [] kind = "deleteTask" -> Deleted(tasks, arg)
    [] kind = "clearCompleted" -> Cleared(tasks)
    [] kind = "deleteLastTask" -> Splice(tasks, LastOpenIndex(tasks))

\* deleteLastTask with no task that is not done: the loop ends, nothing is saved.
deleteLastTaskNone(p) ==
  /\ procs[p].kind = "deleteLastTask" /\ procs[p].pc = "loadTasks"
  /\ IsArray(procs[p].tasks)
  /\ LastOpenIndex(procs[p].tasks) = 0
  /\ procs' = [procs EXCEPT ![p] = Idle]
  /\ UNCHANGED <<now, tz, storage, dailyHistory, streak, nextId, overlaps, errors, workerVars, uiVars>>

\* The handler resumes from loadTasks, changes its copy of the list and calls
\* saveTasks, which issues storageSet({ tasks }).
saveTasks(p) ==
  /\ procs[p].kind \in Mutations /\ procs[p].pc = "loadTasks"
  /\ IsArray(procs[p].tasks)
  /\ procs[p].kind = "deleteLastTask" => LastOpenIndex(procs[p].tasks) # 0
  /\ procs[p].kind = "addTask" => nextId <= MaxAdds
  /\ LET tasks == Mutated(procs[p].kind, procs[p].arg, procs[p].tasks)
     IN /\ storageSet([tasks |-> tasks])
        /\ Notify("tasks", tasks)
        /\ procs' = [procs EXCEPT ![p].tasks = tasks, ![p].arg = 0, ![p].pc = "saveTasks",
                                  ![p].log = Append(@, [op |-> "setTasks", remaining |-> Remaining(tasks)])]
  /\ nextId' = IF procs[p].kind = "addTask" THEN nextId + 1 ELSE nextId
  /\ UNCHANGED <<now, tz, dailyHistory, streak, overlaps, errors, uiVars>>
  /\ UNCHANGED <<swAlive, messages, swProcs, badgeText>>

\* The handler resumes from loadTasks with a value that is no array: push,
\* find, filter or splice is not a function, the TypeError ends the handler
\* and nothing is written.
mutationThrows(p) ==
  /\ procs[p].kind \in Mutations /\ procs[p].pc = "loadTasks"
  /\ ~IsArray(procs[p].tasks)
  /\ errors' = errors \cup {"TypeError"}
  /\ procs' = [procs EXCEPT ![p] = Idle]
  /\ UNCHANGED <<now, tz, storage, dailyHistory, streak, nextId, overlaps, workerVars, uiVars>>

\* Mutant of saveTasksResumed: snapshotToday is not called, the handler returns.
saveTasksResumedNoSnapshot(p) ==
  /\ procs[p].kind \in Mutations /\ procs[p].pc = "saveTasks"
  /\ procs' = [procs EXCEPT ![p] = Idle]
  /\ UNCHANGED <<now, tz, storage, dailyHistory, streak, nextId, overlaps, errors, workerVars, uiVars>>

\* saveTasks resumes from storageSet: render(tasks); updateBadge(tasks) runs to
\* its read of badgeEnabled; snapshotToday(tasks) runs to its read of
\* dailyHistory.
saveTasksResumed(p) ==
  /\ procs[p].kind \in Mutations /\ procs[p].pc = "saveTasks"
  /\ procs' = [procs EXCEPT ![p].pc = "snapshotGet",
                            ![p].badge = IF badgeEnabled THEN "enabled" ELSE "disabled",
                            ![p].hist = loadHistory]
  /\ UNCHANGED <<now, tz, storage, dailyHistory, streak, nextId, overlaps, errors, workerVars, uiVars>>

\* The count of the UPDATE_BADGE message: enabled ? remaining : null (-1).
BadgeCount(enabled, tasks) == IF enabled THEN Remaining(tasks) ELSE -1

\* Mutant of updateBadge: saveTasks awaits updateBadge and the error of a
\* failed send is not caught, so it ends the handler.
updateBadgeUncaught(p) ==
  /\ procs[p].badge \in {"enabled", "disabled"}
  /\ sendMessage([type |-> "UPDATE_BADGE",
                  count |-> BadgeCount(procs[p].badge = "enabled", procs[p].tasks)])
  /\ procs' = [procs EXCEPT ![p] =
       IF procs[p].kind = "badgeToggle" \/ ~swAlive THEN Idle
       ELSE [@ EXCEPT !.badge = "sent",
               !.log = Append(@, [op |-> "UPDATE_BADGE", enabled |-> procs[p].badge = "enabled",
                                  count |-> BadgeCount(procs[p].badge = "enabled", procs[p].tasks)])]]
  /\ UNCHANGED <<now, tz, storage, dailyHistory, streak, nextId, overlaps, errors, uiVars>>
  /\ UNCHANGED <<swAlive, changes, swProcs, badgeText>>

\* updateBadge resumes from its read: the message goes out (an error of
\* sendMessage is caught).  The read was issued before snapshotToday's, so it
\* returns first.  The badge toggle's listener has nothing after it.
updateBadge(p) ==
  /\ procs[p].badge \in {"enabled", "disabled"}
  /\ sendMessage([type |-> "UPDATE_BADGE",
                  count |-> BadgeCount(procs[p].badge = "enabled", procs[p].tasks)])
  /\ procs' = [procs EXCEPT ![p] =
       IF procs[p].kind = "badgeToggle" THEN Idle
       ELSE [@ EXCEPT !.badge = "sent",
               !.log = Append(@, [op |-> "UPDATE_BADGE", enabled |-> procs[p].badge = "enabled",
                                  count |-> BadgeCount(procs[p].badge = "enabled", procs[p].tasks)])]]
  /\ UNCHANGED <<now, tz, storage, dailyHistory, streak, nextId, overlaps, errors, uiVars>>
  /\ UNCHANGED <<swAlive, changes, swProcs, badgeText>>

\* snapshotToday resumes from its read of dailyHistory: the global is set to
\* what was read, today's entry is replaced, storageSet({ dailyHistory }) is
\* issued.  (The handler's copies of the list and of the history are not used
\* after this step and are dropped from the state.)
snapshotToday(p) ==
  /\ procs[p].pc = "snapshotGet" /\ procs[p].badge = "sent"
  /\ IsMapping(procs[p].hist)
  /\ dailyHistory' = WithToday(procs[p].hist, todayString, procs[p].tasks)
  /\ storageSet([dailyHistory |-> dailyHistory'])
  /\ procs' = [procs EXCEPT ![p].pc = "snapshotSet", ![p].tasks = <<>>,
                            ![p].hist = EmptyObject,
                            ![p].log = Append(@, [op |-> "setHistory", key |-> todayString,
                                                  changed |-> dailyHistory' # loadHistory])]
  /\ Notify("dailyHistory", dailyHistory')
  /\ UNCHANGED <<now, tz, streak, nextId, overlaps, errors, uiVars>>
  /\ UNCHANGED <<swAlive, messages, swProcs, badgeText>>

\* snapshotToday resumes from its read with a string: in strict mode the
\* assignment dailyHistory[today] = ... is a TypeError, which ends the handler.
snapshotTodayThrows(p) ==
  /\ procs[p].pc = "snapshotGet" /\ procs[p].badge = "sent"
  /\ ~IsMapping(procs[p].hist)
  /\ dailyHistory' = procs[p].hist
  /\ errors' = errors \cup {"TypeError"}
  /\ procs' = [procs EXCEPT ![p] = Idle]
  /\ UNCHANGED <<now, tz, storage, streak, nextId, overlaps, workerVars, uiVars>>

\* The same in sloppy mode: the assignment does nothing, and the string is
\* stored again.
snapshotTodayIgnored(p) ==
  /\ procs[p].pc = "snapshotGet" /\ procs[p].badge = "sent"
  /\ ~IsMapping(procs[p].hist)
  /\ dailyHistory' = procs[p].hist
  /\ storageSet([dailyHistory |-> dailyHistory'])
  /\ Notify("dailyHistory", dailyHistory')
  /\ procs' = [procs EXCEPT ![p].pc = "snapshotSet", ![p].tasks = <<>>,
                            ![p].hist = EmptyObject,
                            ![p].log = Append(@, [op |-> "setHistory", key |-> todayString,
                                                  changed |-> dailyHistory' # loadHistory])]
  /\ UNCHANGED <<now, tz, streak, nextId, overlaps, errors, uiVars>>
  /\ UNCHANGED <<swAlive, messages, swProcs, badgeText>>

\* snapshotToday resumes from storageSet: updateStreak(), renderCalendar if
\* the panel is open, and the handler returns (init calls updateStreak() once
\* more, with the same result).
snapshotTodayResumed(p) ==
  /\ procs[p].pc = "snapshotSet"
  /\ updateStreak
  /\ IF calendarHidden THEN UNCHANGED <<calYear, calMonth, calDays>>
     ELSE renderCalendar(calYear, calMonth)
  /\ procs' = [procs EXCEPT ![p] = Idle]
  /\ UNCHANGED <<now, tz, storage, dailyHistory, nextId, overlaps, errors, workerVars>>
  /\ UNCHANGED <<calendarHidden, dayDetail>>

\* The page is opened (again): its globals are fresh, the handlers of the page
\* before it are gone, and init() runs to `await loadTasks()`.
init ==
  /\ dailyHistory' = EmptyObject
  /\ streak' = NoStreak
  /\ procs' = [p \in ProcIds |->
       IF p = 1 THEN [Idle EXCEPT !.kind = "init", !.pc = "loadTasks", !.tasks = loadTasks]
       ELSE Idle]
  /\ calendarHidden' = TRUE
  /\ calYear' = NotANumber
  /\ calMonth' = NotANumber
  /\ calDays' = <<>>
  /\ dayDetail' = Closed
  /\ UNCHANGED <<now, tz, storage, nextId, overlaps, errors, workerVars>>

\* init resumes from loadTasks: render(tasks), the reads of badgeEnabled and
\* lastReviewedDate (no state of the model depends on them), updateBadge(tasks)
\* to its read, calYear and calMonth from new Date(), and loadHistory() to its
\* read of dailyHistory.
initLoadHistory(p) ==
  /\ procs[p].kind = "init" /\ procs[p].pc = "loadTasks"
  /\ IsArray(procs[p].tasks)
  /\ procs' = [procs EXCEPT ![p].pc = "loadHistory",
                            ![p].badge = IF badgeEnabled THEN "enabled" ELSE "disabled",
                            ![p].hist = loadHistory]
  /\ calYear' = Num(NewDate[1])
  /\ calMonth' = Num(NewDate[2] - 1)
  /\ UNCHANGED <<now, tz, storage, dailyHistory, streak, nextId, overlaps, errors, workerVars>>
  /\ UNCHANGED <<calendarHidden, calDays, dayDetail>>

\* init resumes from loadTasks with a value that is no array: render(tasks)
\* finds no forEach, the TypeError ends init.
initThrows(p) ==
  /\ procs[p].kind = "init" /\ procs[p].pc = "loadTasks"
  /\ ~IsArray(procs[p].tasks)
  /\ errors' = errors \cup {"TypeError"}
  /\ procs' = [procs EXCEPT ![p] = Idle]
  /\ UNCHANGED <<now, tz, storage, dailyHistory, streak, nextId, overlaps, workerVars, uiVars>>

\* loadHistory resumes: the global is set; snapshotToday(tasks) runs to its read.
initSnapshot(p) ==
  /\ procs[p].kind = "init" /\ procs[p].pc = "loadHistory" /\ procs[p].badge = "sent"
  /\ dailyHistory' = procs[p].hist
  /\ procs' = [procs EXCEPT ![p].pc = "snapshotGet", ![p].hist = loadHistory]
  /\ UNCHANGED <<now, tz, storage, streak, nextId, overlaps, errors, workerVars, uiVars>>

\* The badge toggle changes to `checked`: its listener runs to
\* `await storageSet({ badgeEnabled })`.
badgeToggleCall(p, checked) ==
  /\ FreeSlot(p)
  /\ InFlight => overlaps < MaxOverlaps
  /\ overlaps' = IF InFlight THEN overlaps + 1 ELSE overlaps
  /\ storageSet([badgeEnabled |-> checked])
  /\ Notify("badgeEnabled", checked)
  /\ procs' = [procs EXCEPT ![p] = [Idle EXCEPT !.kind = "badgeToggle", !.pc = "setBadgeEnabled"]]
  /\ UNCHANGED <<now, tz, dailyHistory, streak, nextId, errors, uiVars>>
  /\ UNCHANGED <<swAlive, messages, swProcs, badgeText>>

\* The listener resumes from storageSet and runs to `await loadTasks()`.
badgeToggleLoadTasks(p) ==
  /\ procs[p].kind = "badgeToggle" /\ procs[p].pc = "setBadgeEnabled"
  /\ procs' = [procs EXCEPT ![p].pc = "loadTasks", ![p].tasks = loadTasks]
  /\ UNCHANGED <<now, tz, storage, dailyHistory, streak, nextId, overlaps, errors, workerVars, uiVars>>

\* The listener resumes from loadTasks: updateBadge(tasks) runs to its read of
\* badgeEnabled.
badgeToggleUpdateBadge(p) ==
  /\ procs[p].kind = "badgeToggle" /\ procs[p].pc = "loadTasks"
  /\ procs' = [procs EXCEPT ![p].pc = "updateBadge",
                            ![p].badge = IF badgeEnabled THEN "enabled" ELSE "disabled"]
  /\ UNCHANGED <<now, tz, storage, dailyHistory, streak, nextId, overlaps, errors, workerVars, uiVars>>

\* ------------------------------------------------- calendar and popup

\* Click on the calendar toggle: the panel is shown or hidden; when shown the
\* grid is rendered.
calendarToggle ==
  /\ calendarHidden' = ~calendarHidden
  /\ IF calendarHidden THEN renderCalendar(calYear, calMonth)
     ELSE UNCHANGED <<calYear, calMonth, calDays>>
  /\ UNCHANGED <<now, tz, storage, dailyHistory, streak, procs, nextId, overlaps, errors,
                 workerVars, dayDetail>>

\* Click on the previous-month button of the open panel.
calPrevClick ==
  /\ ~calendarHidden
  /\ NavDistance > -MaxNav
  /\ renderCalendar(PrevMonth(calYear, calMonth)[1], PrevMonth(calYear, calMonth)[2])
  /\ UNCHANGED <<now, tz, storage, dailyHistory, streak, procs, nextId, overlaps, errors,
                 workerVars, calendarHidden, dayDetail>>

\* Click on the next-month button of the open panel.
calNextClick ==
  /\ ~calendarHidden
  /\ NavDistance < MaxNav
  /\ renderCalendar(NextMonth(calYear, calMonth)[1], NextMonth(calYear, calMonth)[2])
  /\ UNCHANGED <<now, tz, storage, dailyHistory, streak, procs, nextId, overlaps, errors,
                 workerVars, calendarHidden, dayDetail>>

\* Click on cell i of the grid, which has a listener: showDayDetail(dateStr).
showDayDetail(i) ==
  /\ ~calendarHidden
  /\ i \in 1..Len(calDays)
  /\ calDays[i].click # <<>>
  /\ dayDetail' = Shown(dailyHistory, calDays[i].click)
  /\ UNCHANGED <<now, tz, storage, dailyHistory, streak, procs, nextId, overlaps, errors,
                 workerVars, calendarHidden, calYear, calMonth, calDays>>

\* Click on the close button or the overlay, or Escape: closeDayDetail().
closeDayDetail ==
  /\ ~dayDetail.popupHidden
  /\ dayDetail' = [dayDetail EXCEPT !.popupHidden = TRUE, !.overlayHidden = TRUE]
  /\ UNCHANGED <<now, tz, storage, dailyHistory, streak, procs, nextId, overlaps, errors,
                 workerVars, calendarHidden, calYear, calMonth, calDays>>

\* ------------------------------------------- the service worker's listeners

\* Mutant of BadgeTextFor: a count of 0 is shown as "0".
BadgeTextForZeroShown(count) == IF count >= 0 THEN ToDigits(count) ELSE <<>>

\* count > 0 ? String(count) : ""
BadgeTextFor(count) == IF count > 0 THEN ToDigits(count) ELSE <<>>

\* msg.count === null || msg.count === undefined (null is -1, undefined is a
\* message without the field).
NoCount(msg) == "count" \notin DOMAIN msg \/ msg.count = -1

\* The onMessage listener runs on the next message.
onMessage ==
  /\ messages # <<>>
  /\ badgeText' = IF Head(messages).type # "UPDATE_BADGE" THEN badgeText
                  ELSE IF NoCount(Head(messages)) THEN <<>>
                  ELSE BadgeTextFor(Head(messages).count)
  /\ messages' = Tail(messages)
  /\ UNCHANGED <<now, tz, storage, dailyHistory, streak, procs, nextId, overlaps, errors, uiVars>>
  /\ UNCHANGED <<swAlive, changes, swProcs>>

\* The onChanged listener runs on the next notification: it returns at once
\* unless the tasks key changed, else it runs to its read of badgeEnabled.
onChanged ==
  /\ changes # <<>>
  /\ swProcs' = IF Head(changes).key = "tasks"
                  THEN Append(swProcs, [enabled |-> badgeEnabled, tasks |-> Head(changes).newValue])
                  ELSE swProcs
  /\ changes' = Tail(changes)
  /\ UNCHANGED <<now, tz, storage, dailyHistory, streak, procs, nextId, overlaps, errors, uiVars>>
  /\ UNCHANGED <<swAlive, messages, badgeText>>

\* The onChanged listener resumes from its read and sets the badge text.
onChangedResumed ==
  /\ swProcs # <<>>
  /\ badgeText' = IF ~Head(swProcs).enabled THEN <<>>
                  ELSE BadgeTextFor(Remaining(Head(swProcs).tasks))
  /\ swProcs' = Tail(swProcs)
  /\ UNCHANGED <<now, tz, storage, dailyHistory, streak, procs, nextId, overlaps, errors, uiVars>>
  /\ UNCHANGED <<swAlive, messages, changes>>

\* A message that some other sender puts on the channel.
Foreign ==
  {[type |-> "PING"], [type |-> "PING", count |-> 2], [type |-> "UPDATE_BADGE"]}
    \cup {[type |-> "UPDATE_BADGE", count |-> c] : c \in {-1, 0, 1, 12}}

foreignMessage(msg) ==
  /\ swAlive
  /\ Len(messages) <= MaxPending
  /\ messages' = Append(messages, msg)
  /\ UNCHANGED <<now, tz, storage, dailyHistory, streak, procs, nextId, overlaps, errors, uiVars>>
  /\ UNCHANGED <<swAlive, changes, swProcs, badgeText>>

\* Local midnight passes.
Rollover ==
  /\ now < LastDay
  /\ now' = now + 1
  /\ UNCHANGED <<tz, storage, dailyHistory, streak, procs, nextId, overlaps, errors, workerVars, uiVars>>

\* Ids of the tasks created so far (a rendered row may be stale).
Ids == 1..(nextId - 1)

Init ==
  /\ now = 0
  /\ tz = NoDst
  /\ storage \in {[badgeEnabled |-> b] : b \in BOOLEAN}
  /\ dailyHistory = EmptyObject
  /\ streak = NoStreak
  /\ procs = [p \in ProcIds |->
       IF p = 1 THEN [Idle EXCEPT !.kind = "init", !.pc = "loadTasks"] ELSE Idle]
  /\ nextId = 1
  /\ overlaps = 0
  /\ errors = {}
  /\ WorkerInit(FALSE)
  /\ UiInit

Next ==
  \/ \E text \in Inputs : addTaskBlank(text)
  \/ \E p \in ProcIds, text \in Inputs : addTaskCall(p, text)
  \/ \E p \in ProcIds, id \in Ids : toggleTaskCall(p, id)
  \/ \E p \in ProcIds, id \in Ids : deleteTaskCall(p, id)
  \/ \E p \in ProcIds : clearCompletedCall(p)
  \/ \E p \in ProcIds : deleteLastTaskCall(p)
  \/ \E p \in ProcIds : deleteLastTaskNone(p)
  \/ \E p \in ProcIds : saveTasks(p)
  \/ \E p \in ProcIds : saveTasksResumed(p)
  \/ \E p \in ProcIds : updateBadge(p)
  \/ \E p \in ProcIds : snapshotToday(p)
  \/ \E p \in ProcIds : snapshotTodayResumed(p)
  \/ init
  \/ \E p \in ProcIds : initLoadHistory(p)
  \/ \E p \in ProcIds : initSnapshot(p)
  \/ Rollover

Spec == Init /\ [][Next]_vars

\* ------------------------------------------------- the streak engine alone

\* Histories over the days up to today: each day absent, all-done or open.
DayKinds == {"absent", "done", "open"}

HistoryOf(kind) ==
  [k \in {formatDate(DateOf[n]) : n \in {m \in DOMAIN kind : kind[m] # "absent"}} |->
     IF kind[DayIndex(ParseKey(k))] = "done" THEN DoneEntry ELSE OpenEntry]

StreakInit ==
  /\ now \in Days
  /\ tz \in TimeZones(Days)
  /\ \E kind \in [0..now -> DayKinds] : dailyHistory = HistoryOf(kind)
  /\ storage = [dailyHistory |-> dailyHistory]
  /\ streak = NoStreak
  /\ procs = [p \in ProcIds |-> Idle]
  /\ nextId = 1
  /\ overlaps = 0
  /\ errors = {}
  /\ WorkerInit(FALSE)
  /\ UiInit

StreakUpdate ==
  /\ streak = NoStreak
  /\ updateStreak
  /\ UNCHANGED <<now, tz, storage, dailyHistory, procs, nextId, overlaps, errors, workerVars, uiVars>>

StreakNext == StreakUpdate

SpecStreak == StreakInit /\ [][StreakNext]_vars

\* ------------------------------------- two runs: the scenario of the spec

\* A 5-day all-done run that covers the day two weeks before today, a 2-day
\* all-done run ending yesterday, today absent or not all-done, every other
\* day absent (or every other day open).
TwoRunsKind(today, s, filler, todayKind) ==
  [n \in 0..today |->
     IF n \in s..(s + 4) \/ n \in {today - 2, today - 1} THEN "done"
     ELSE IF n = today THEN todayKind
     ELSE filler]

TwoRunsHistory(kind) ==
  [k \in {formatDate(DateOf[n]) : n \in {m \in DOMAIN kind : kind[m] # "absent"}} |->
     LET n == DayIndex(ParseKey(k))
     IN IF kind[n] = "done" THEN DoneEntry
        ELSE IF kind[n] = "empty" THEN EmptyEntry ELSE OpenEntry]

TwoRunsInit ==
  /\ now \in {19, 20}
  /\ tz \in TimeZones(0..now)
  /\ \E s \in (now - 18)..(now - 14), filler \in {"absent", "open"},
        todayKind \in {"absent", "open", "empty"} :
       dailyHistory = TwoRunsHistory(TwoRunsKind(now, s, filler, todayKind))
  /\ storage = [dailyHistory |-> dailyHistory]
  /\ streak = NoStreak
  /\ procs = [p \in ProcIds |-> Idle]
  /\ nextId = 1
  /\ overlaps = 0
  /\ errors = {}
  /\ WorkerInit(FALSE)
  /\ UiInit

SpecTwoRuns == TwoRunsInit /\ [][StreakNext]_vars

\* --------------------------------------------- a page that has been opened

\* Stored task lists: up to MaxTasks tasks, each done or not.
TaskLists ==
  UNION {{[i \in 1..n |-> [id |-> i, text |-> <<"a">>, done |-> d[i]]] : d \in [1..n -> BOOLEAN]} :
           n \in 0..MaxTasks}

\* The page after init has run to its end on the stored task list `tasks`:
\* today's entry is written, the streak displayed, the calendar cursor set.
PageOpened(tasks, enabled) ==
  /\ now = 0
  /\ tz = NoDst
  /\ dailyHistory = WithToday(EmptyObject, todayString, tasks)
  /\ storage = [badgeEnabled |-> enabled, tasks |-> tasks, dailyHistory |-> dailyHistory]
  /\ streak = calculateStreak(dailyHistory)
  /\ procs = [p \in ProcIds |-> Idle]
  /\ nextId = Len(tasks) + 1
  /\ overlaps = 0
  /\ errors = {}
  /\ calendarHidden = TRUE
  /\ calYear = Num(NewDate[1])
  /\ calMonth = Num(NewDate[2] - 1)
  /\ calDays = <<>>
  /\ dayDetail = Closed

\* -------------------------------------------- the badge: page and worker

\* Few enough messages and notifications are pending for a handler to be called.
FewPending == Len(messages) + Len(changes) + Len(swProcs) <= MaxPending

\* The page is being opened on a stored list of at most one task, with the
\* service worker there or not.
BadgeInit ==
  /\ now = 0
  /\ tz = NoDst
  /\ \E tasks \in {t \in TaskLists : Len(t) <= 1}, enabled \in BOOLEAN :
       /\ storage = [badgeEnabled |-> enabled, tasks |-> tasks]
       /\ procs = [p \in ProcIds |->
            IF p = 1 THEN [Idle EXCEPT !.kind = "init", !.pc = "loadTasks", !.tasks = tasks]
            ELSE Idle]
       /\ nextId = Len(tasks) + 1
  /\ dailyHistory = EmptyObject
  /\ streak = NoStreak
  /\ overlaps = 0
  /\ errors = {}
  /\ \E alive \in BOOLEAN : WorkerInit(alive)
  /\ UiInit

BadgeNext ==
  \/ \E p \in ProcIds : initLoadHistory(p)
  \/ \E p \in ProcIds : initSnapshot(p)
  \/ FewPending /\ \E p \in ProcIds, id \in Ids : toggleTaskCall(p, id)
  \/ FewPending /\ \E p \in ProcIds : deleteLastTaskCall(p)
  \/ \E p \in ProcIds : deleteLastTaskNone(p)
  \/ \E p \in ProcIds : saveTasks(p)
  \/ \E p \in ProcIds : saveTasksResumed(p)
  \/ \E p \in ProcIds : updateBadge(p)
  \/ \E p \in ProcIds : snapshotToday(p)
  \/ \E p \in ProcIds : snapshotTodayResumed(p)
  \/ FewPending /\ \E p \in ProcIds, checked \in BOOLEAN : badgeToggleCall(p, checked)
  \/ \E p \in ProcIds : badgeToggleLoadTasks(p)
  \/ \E p \in ProcIds : badgeToggleUpdateBadge(p)
  \/ onMessage
  \/ onChanged
  \/ onChangedResumed

SpecBadge == BadgeInit /\ [][BadgeNext]_vars

\* The service worker alone, with messages of every kind.
WorkerOnlyInit ==
  /\ PageOpened(<<>>, TRUE)
  /\ WorkerInit(TRUE)

WorkerNext ==
  \/ \E msg \in Foreign : foreignMessage(msg)
  \/ onMessage

SpecWorker == WorkerOnlyInit /\ [][WorkerNext]_vars

\* ---------------------------------------------------- the calendar panel

\* The page is being opened: on the first day with nothing stored, or on the
\* second with the entry of the first (all-done or not).
CalendarInit ==
  /\ tz = NoDst
  /\ \E tasks \in {t \in TaskLists : Len(t) = 1} :
       \/ now = 0 /\ storage = [tasks |-> tasks]
       \/ /\ now = 1
          /\ \E e \in {DoneEntry, OpenEntry} :
               storage = [tasks |-> tasks, dailyHistory |-> [k \in {formatDate(Epoch)} |-> e]]
  /\ dailyHistory = EmptyObject
  /\ streak = NoStreak
  /\ procs = [p \in ProcIds |->
       IF p = 1 THEN [Idle EXCEPT !.kind = "init", !.pc = "loadTasks", !.tasks = loadTasks]
       ELSE Idle]
  /\ nextId = 2
  /\ overlaps = 0
  /\ errors = {}
  /\ WorkerInit(FALSE)
  /\ UiInit

CalendarNext ==
  \/ \E p \in ProcIds : initLoadHistory(p)
  \/ \E p \in ProcIds : updateBadge(p)
  \/ \E p \in ProcIds : initSnapshot(p)
  \/ \E p \in ProcIds : snapshotToday(p)
  \/ \E p \in ProcIds : snapshotTodayResumed(p)
  \/ calendarToggle
  \/ calPrevClick
  \/ calNextClick

SpecCalendar == CalendarInit /\ [][CalendarNext]_vars

\* ---------------------------------------------------- the day-detail popup

\* The page is being opened on the first day, on a stored list of one task.
DetailInit ==
  /\ now = 0
  /\ tz = NoDst
  /\ \E tasks \in {t \in TaskLists : Len(t) = 1} : storage = [tasks |-> tasks]
  /\ dailyHistory = EmptyObject
  /\ streak = NoStreak
  /\ procs = [p \in ProcIds |->
       IF p = 1 THEN [Idle EXCEPT !.kind = "init", !.pc = "loadTasks", !.tasks = loadTasks]
       ELSE Idle]
  /\ nextId = 2
  /\ overlaps = 0
  /\ errors = {}
  /\ WorkerInit(FALSE)
  /\ UiInit

DetailNext ==
  \/ \E p \in ProcIds : initLoadHistory(p)
  \/ \E p \in ProcIds : initSnapshot(p)
  \/ \E p \in ProcIds : deleteLastTaskCall(p)
  \/ \E p \in ProcIds : deleteLastTaskNone(p)
  \/ \E p \in ProcIds : saveTasks(p)
  \/ \E p \in ProcIds : saveTasksResumed(p)
  \/ \E p \in ProcIds : updateBadge(p)
  \/ \E p \in ProcIds : snapshotToday(p)
  \/ \E p \in ProcIds : snapshotTodayResumed(p)
  \/ Rollover
  \/ calendarToggle
  \/ \E i \in 1..Len(calDays) : showDayDetail(i)
  \/ closeDayDetail

SpecDetail == DetailInit /\ [][DetailNext]_vars

\* ------------------------------------------------ missing and wrong values

\* What storage may hold at page load: each of tasks and dailyHistory missing,
\* of the wrong type, or as the page writes it.
StoredAtLoad ==
  LET base == [badgeEnabled |-> TRUE]
      withTasks == {base}
                   \cup {[badgeEnabled |-> TRUE, tasks |-> t] :
                          t \in {NotAnArray} \cup {l \in TaskLists : Len(l) = 1}}
  IN withTasks \cup
       {[k \in DOMAIN st \cup {"dailyHistory"} |-> IF k = "dailyHistory" THEN h ELSE st[k]] :
          st \in withTasks, h \in {NotAMapping, EmptyObject}}

StorageInit ==
  /\ now = 0
  /\ tz = NoDst
  /\ storage \in StoredAtLoad
  /\ dailyHistory = EmptyObject
  /\ streak = NoStreak
  /\ procs = [p \in ProcIds |->
       IF p = 1 THEN [Idle EXCEPT !.kind = "init", !.pc = "loadTasks", !.tasks = loadTasks]
       ELSE Idle]
  /\ nextId = 2
  /\ overlaps = 0
  /\ errors = {}
  /\ WorkerInit(FALSE)
  /\ UiInit

StorageNext ==
  \/ \E p \in ProcIds : initLoadHistory(p)
  \/ \E p \in ProcIds : initThrows(p)
  \/ \E p \in ProcIds : initSnapshot(p)
  \/ \E p \in ProcIds, text \in Inputs : addTaskCall(p, text)
  \/ \E p \in ProcIds : deleteLastTaskCall(p)
  \/ \E p \in ProcIds : deleteLastTaskNone(p)
  \/ \E p \in ProcIds : saveTasks(p)
  \/ \E p \in ProcIds : mutationThrows(p)
  \/ \E p \in ProcIds : saveTasksResumed(p)
  \/ \E p \in ProcIds : updateBadge(p)
  \/ \E p \in ProcIds : snapshotToday(p)
  \/ \E p \in ProcIds : snapshotTodayThrows(p)
  \/ \E p \in ProcIds : snapshotTodayIgnored(p)
  \/ \E p \in ProcIds : snapshotTodayResumed(p)

SpecStorage == StorageInit /\ [][StorageNext]_vars

\* ------------------------------------------- Ctrl+Backspace: deleteLastTask

DeleteLastInit ==
  /\ \E tasks \in TaskLists, enabled \in BOOLEAN : PageOpened(tasks, enabled)
  /\ WorkerInit(FALSE)

DeleteLastNext ==
  \/ \E p \in ProcIds : deleteLastTaskCall(p)
  \/ \E p \in ProcIds : deleteLastTaskNone(p)
  \/ \E p \in ProcIds : saveTasks(p)
  \/ \E p \in ProcIds : saveTasksResumed(p)
  \/ \E p \in ProcIds : updateBadge(p)
  \/ \E p \in ProcIds : snapshotToday(p)
  \/ \E p \in ProcIds : snapshotTodayResumed(p)

SpecDeleteLast == DeleteLastInit /\ [][DeleteLastNext]_vars

\* ------------------------------------------------ claims: streak engine

\* Day n has an entry with allDone = true.
DoneDay(n) ==
  /\ n \in DOMAIN DateOf
  /\ IsAllDone(dailyHistory, formatDate(DateOf[n]))

\* The number of consecutive all-done days ending at day n (0 if n is not one).
RunEndingAt(n) ==
  IF ~DoneDay(n) THEN 0
  ELSE CHOOSE k \in 1..(n + 1) :
         /\ \A j \in 0..(k - 1) : DoneDay(n - j)
         /\ (k = n + 1 \/ ~DoneDay(n - k))

\* C1: the current streak counts today when today's entry is all-done, skips
\* today otherwise, and then adds one for each consecutive calendar day before
\* today whose entry exists and is all-done, stopping at the first that is
\* missing or not all-done.
C1_CurrentFollowsWalk ==
  streak # NoStreak =>
    streak.current = (IF DoneDay(now) THEN 1 ELSE 0) + RunEndingAt(now - 1)

\* Today and the 3 preceding days all-done across the month end, the 4th
\* preceding day absent: the display shows {current: 4, best: 4}.
C1_Witness ==
  /\ now = 4
  /\ \A n \in 1..4 : DoneDay(n)
  /\ formatDate(DateOf[0]) \notin DOMAIN dailyHistory
  /\ streak = [current |-> 4, best |-> 4]

\* The first all-done day of the history.
FirstDone == CHOOSE n \in 0..now : DoneDay(n) /\ \A m \in 0..(n - 1) : ~DoneDay(m)

\* The longest piece of the 5-day run starting at day s as the scan sees it:
\* a local day of 23 or 25 hours inside the run cuts it in two.
LongRunAsScanned(s) ==
  IF tz.day \in s..(s + 3) THEN Max(tz.day - s + 1, s + 4 - tz.day) ELSE 5

\* C2 as stated: the two-runs history gives {current: 0, best: 5}.
C2_Original ==
  streak # NoStreak => streak = [current |-> 0, best |-> 5]

\* C2 as amended: the two-runs history gives current = 2 (today is skipped and
\* the run ending yesterday is counted); best is 5 when every local day of the
\* 5-day run is 24 hours long, and the longer piece of the run when a
\* daylight-saving change falls inside it.
C2_TwoRuns ==
  streak # NoStreak =>
    /\ streak.current = 2
    /\ streak.best = LongRunAsScanned(FirstDone)

\* The two-runs history in a time zone without a change, computed.
C2_Witness ==
  /\ tz = NoDst
  /\ now = 19
  /\ \A n \in 5..9 : DoneDay(n)
  /\ DoneDay(17) /\ DoneDay(18) /\ ~DoneDay(19)
  /\ streak = [current |-> 2, best |-> 5]

\* The longest run of consecutive calendar days that are all all-done.
LongestRun ==
  LET runs == {RunEndingAt(n) : n \in 0..now}
  IN CHOOSE r \in runs : \A q \in runs : q <= r

\* C3: best is the length of the longest run of consecutive calendar days
\* that all have an entry with allDone = true.
C3_BestIsLongestRun ==
  streak # NoStreak => streak.best = LongestRun

\* C3 where every local day is 24 hours long.
C3_BestIsLongestRunNoDst ==
  (streak # NoStreak /\ tz = NoDst) => streak.best = LongestRun

\* ------------------------------------------------ claims: daily history

\* The task sequence of an entry is non-empty and every task in it is done.
NonEmptyAllDone(e) == Len(e.tasks) > 0 /\ \A i \in 1..Len(e.tasks) : e.tasks[i].done

\* C4: every stored dailyHistory entry has allDone = true exactly when its
\* task sequence is non-empty and every task in it is done.
C4_AllDoneIffNonEmptyAllDone ==
  \A k \in DOMAIN loadHistory : loadHistory[k].allDone <=> NonEmptyAllDone(loadHistory[k])

\* An entry with no tasks (allDone false) and an entry of two done tasks
\* (allDone true) are stored.
C4_Witness ==
  /\ \E k \in DOMAIN loadHistory : loadHistory[k].tasks = <<>> /\ ~loadHistory[k].allDone
  /\ \E k \in DOMAIN loadHistory :
       /\ Len(loadHistory[k].tasks) = 2
       /\ loadHistory[k].allDone

\* Handler p takes the step of snapshotToday that writes dailyHistory.
SnapshotWrites(p) == procs[p].pc = "snapshotGet" /\ procs'[p].pc = "snapshotSet"

\* Entry e is the (text, done) copy of the task list, in order.
IsCopyOf(e, tasks) ==
  /\ Len(e.tasks) = Len(tasks)
  /\ \A i \in 1..Len(tasks) :
       e.tasks[i].text = tasks[i].text /\ e.tasks[i].done = tasks[i].done

\* C5: the write of snapshotToday(tasks) stores the dailyHistory it read with
\* the entry of the current local date replaced by the (text, done) copy of
\* the tasks, in order: one entry for that date, the entry of every other
\* date as read.
C5_ReplacesOnlyToday ==
  [][\A p \in ProcIds : SnapshotWrites(p) =>
       LET read == procs[p].hist
           written == storage'["dailyHistory"]
       IN /\ DOMAIN written = DOMAIN read \cup {todayString}
          /\ IsCopyOf(written[todayString], procs[p].tasks)
          /\ \A k \in DOMAIN read \ {todayString} : written[k] = read[k]]_vars

\* snapshotToday has just written a second day's entry, a copy of two tasks of
\* which the second is done and the first is not.
C5_Witness ==
  \E p \in ProcIds :
    /\ procs[p].pc = "snapshotSet"
    /\ Cardinality(DOMAIN loadHistory) = 2
    /\ now = 1
    /\ todayString \in DOMAIN loadHistory
    /\ Len(loadHistory[todayString].tasks) = 2
    /\ ~loadHistory[todayString].tasks[1].done
    /\ loadHistory[todayString].tasks[2].done

\* C6: snapshotToday called again with the task list of the call before it, on
\* the same date and with no write of dailyHistory between its read and its
\* write, leaves the stored dailyHistory as the call before left it.
C6_Idempotent ==
  [][\A p \in ProcIds :
       (/\ SnapshotWrites(p)
        /\ procs[p].hist = loadHistory
        /\ todayString \in DOMAIN loadHistory
        /\ IsCopyOf(loadHistory[todayString], procs[p].tasks))
       => storage' = storage]_vars

\* The page was opened again with the task list unchanged: init has written
\* the day's entry a second time.
C6_Witness ==
  /\ procs[1].kind = "init" /\ procs[1].pc = "snapshotSet"
  /\ ~procs[1].log[Len(procs[1].log)].changed
  /\ Len(loadTasks) = 2
  /\ todayString \in DOMAIN loadHistory
  /\ IsCopyOf(loadHistory[todayString], loadTasks)

\* Date key k is before the current local date.
Past(k) == StrLess(k, todayString)

\* C7: the stored entry of a date that has passed never changes.
C7_PastEntriesImmutable ==
  [][\A k \in DOMAIN loadHistory :
       (Past(k) /\ k \in DOMAIN loadHistory') => loadHistory'[k] = loadHistory[k]]_vars

\* C8: a date that has an entry in the stored dailyHistory has one in every
\* later state.
C8_DatesNeverShrink ==
  [][DOMAIN loadHistory \subseteq DOMAIN loadHistory']_vars

\* Handler p takes the step that writes the tasks key.
TasksWrites(p) == procs[p].pc = "loadTasks" /\ procs'[p].pc = "saveTasks"

\* C9: the chains of different actions do not overlap: a tasks write is based
\* on the task list stored at that moment, and a dailyHistory write on the
\* dailyHistory stored at that moment.
C9_ChainsDoNotOverlap ==
  [][\A p \in ProcIds :
       /\ TasksWrites(p) => procs[p].tasks = loadTasks
       /\ SnapshotWrites(p) => procs[p].hist = loadHistory]_vars

\* The operations a handler has performed, in order.
Ops(log) == [i \in 1..Len(log) |-> log[i].op]

\* Handler p, a mutation that has reached saveTasks, returns in this step (the
\* page is not being opened again).
MutationReturns(p) ==
  /\ procs[p].kind \in Mutations /\ procs[p].pc # "loadTasks"
  /\ procs'[p].kind = "idle"
  /\ streak' # NoStreak

\* C10: a mutation that has reached saveTasks returns only after, in this
\* order, the write of the tasks key, the UPDATE_BADGE message with the count
\* for that list (or none when the badge is disabled), the write of
\* dailyHistory, and then the streak recomputation from the history written.
C10_MutationChain ==
  [][\A p \in ProcIds : MutationReturns(p) =>
       /\ Ops(procs[p].log) = <<"setTasks", "UPDATE_BADGE", "setHistory">>
       /\ procs[p].log[2].count =
            (IF procs[p].log[2].enabled THEN procs[p].log[1].remaining ELSE -1)
       /\ procs[p].pc = "snapshotSet"
       /\ streak' = calculateStreak(dailyHistory)]_vars

\* A mutation has written the tasks key, sent the count 1 and written
\* dailyHistory; the streak recomputation is next.
C10_Witness ==
  \E p \in ProcIds :
    /\ procs[p].kind \in Mutations
    /\ procs[p].pc = "snapshotSet"
    /\ Ops(procs[p].log) = <<"setTasks", "UPDATE_BADGE", "setHistory">>
    /\ procs[p].log[2].count = 1

\* ------------------------------------------------------ claims: task list

\* Handler p, a deleteLastTask that has loaded the task list, takes a step.
DeleteLastSteps(p) ==
  /\ procs[p].kind = "deleteLastTask" /\ procs[p].pc = "loadTasks"
  /\ procs'[p] # procs[p]

\* `new` is `old` without its element i, the others as they were and in order.
RemovedAt(old, new, i) ==
  /\ Len(new) = Len(old) - 1
  /\ \A j \in 1..(i - 1) : new[j] = old[j]
  /\ \A j \in i..Len(new) : new[j] = old[j + 1]

\* C11: deleteLastTask removes exactly one task of the list it loaded, the
\* not-done task with the highest index, and stores the other tasks (done
\* tasks after it included) unchanged and in order; when no task is not-done
\* it writes nothing to storage and returns.
C11_DeleteLastTask ==
  [][\A p \in ProcIds : DeleteLastSteps(p) =>
       LET old == procs[p].tasks
       IN IF \E i \in 1..Len(old) : ~old[i].done
            THEN \E i \in 1..Len(old) :
                   /\ ~old[i].done
                   /\ \A j \in (i + 1)..Len(old) : old[j].done
                   /\ RemovedAt(old, storage'["tasks"], i)
            ELSE storage' = storage /\ procs'[p] = Idle]_vars

\* Of the list (open, open, done) deleteLastTask has removed the second task:
\* the first task and the done third task are stored.
C11_Witness ==
  \E p \in ProcIds :
    /\ procs[p].kind = "deleteLastTask" /\ procs[p].pc = "saveTasks"
    /\ Len(loadTasks) = 2
    /\ loadTasks[1].id = 1 /\ ~loadTasks[1].done
    /\ loadTasks[2].id = 3 /\ loadTasks[2].done

\* --------------------------------------------------------- claims: badge

\* Nothing is in progress: no handler of the page, no message, no notification,
\* no listener of the service worker.
Processed ==
  /\ \A p \in ProcIds : procs[p].kind = "idle"
  /\ messages = <<>> /\ changes = <<>> /\ swProcs = <<>>

\* The badge text that fits the stored tasks and the stored badgeEnabled.
ExpectedBadge ==
  IF badgeEnabled /\ Remaining(loadTasks) > 0 THEN ToDigits(Remaining(loadTasks)) ELSE <<>>

\* C13: with the service worker there, once all handlers, notifications and
\* messages have been processed the badge text is the number of not-done
\* stored tasks when badgeEnabled is true and that number is above 0, and
\* empty otherwise.
C13_BadgeEventuallyConsistent ==
  (swAlive /\ Processed) => badgeText = ExpectedBadge

\* The service worker's onMessage listener takes a message.
MessageTaken == messages # <<>> /\ messages' = Tail(messages)

\* C14: on an UPDATE_BADGE message the badge text becomes the decimal count
\* when count > 0 and empty when count is null, undefined or 0; a message of
\* another type leaves the badge text as it is.
C14_OnMessageSetsBadge ==
  [][MessageTaken =>
       LET msg == Head(messages)
       IN IF msg.type # "UPDATE_BADGE" THEN badgeText' = badgeText
          ELSE IF "count" \in DOMAIN msg /\ msg.count > 0
            THEN /\ badgeText' # <<>>
                 /\ Head(badgeText') # "0"
                 /\ ParseInt(badgeText') = msg.count
            ELSE badgeText' = <<>>]_vars

\* The listener has set the badge to "12"; a message with count 0 and one of
\* another type are next.
C14_Witness ==
  /\ badgeText = <<"1", "2">>
  /\ messages = <<[type |-> "UPDATE_BADGE", count |-> 0], [type |-> "PING", count |-> 2]>>

\* C15: with no service worker to receive the message, a mutation that has
\* reached saveTasks still returns only after the write of the tasks key, the
\* attempt to send, the write of today's dailyHistory entry and the streak
\* recomputation, and no handler of the page is ended by an exception.
C15_SendFailureTolerated ==
  [][~swAlive =>
       /\ errors' = {}
       /\ \A p \in ProcIds :
            (procs[p].kind \in Mutations /\ procs[p].pc # "loadTasks" /\ procs'[p].kind = "idle")
            => /\ Ops(procs[p].log) = <<"setTasks", "UPDATE_BADGE", "setHistory">>
               /\ procs[p].log[3].key \in DOMAIN loadHistory
               /\ streak' = calculateStreak(dailyHistory)]_vars

\* Without a service worker a toggle has run to its end: the task is stored
\* as done, today's entry is all-done and the streak shows 1 day.
C15_Witness ==
  /\ ~swAlive /\ messages = <<>>
  /\ \A p \in ProcIds : procs[p].kind = "idle"
  /\ Len(loadTasks) = 1 /\ loadTasks[1].done
  /\ IsAllDone(loadHistory, todayString)
  /\ streak = [current |-> 1, best |-> 1]

\* ------------------------------------------------ claims: stored values

\* C16: a stored tasks or dailyHistory value that is missing or of the wrong
\* type is treated as absent: no handler ends with an error, and a handler
\* that has written its snapshot has stored a mapping that holds today's entry.
C16_MalformedTreatedAsAbsent ==
  /\ errors = {}
  /\ \A p \in ProcIds : procs[p].pc = "snapshotSet" =>
       (IsMapping(loadHistory) /\ todayString \in DOMAIN loadHistory)

\* C16 for missing values only: holds.
C16_MissingTreatedAsAbsent ==
  (/\ Has("tasks") => IsArray(storage["tasks"])
   /\ Has("dailyHistory") => IsMapping(storage["dailyHistory"]))
  => C16_MalformedTreatedAsAbsent

\* ------------------------------------------------------ claims: calendar

\* The displayed month changes from one month to another in this step.
Navigated ==
  /\ IsNum(calYear) /\ IsNum(calMonth) /\ IsNum(calYear') /\ IsNum(calMonth')
  /\ <<calYear, calMonth>>' # <<calYear, calMonth>>

\* C17: a previous-month or next-month click on a displayed month leaves the
\* month index in 0..11 and moves exactly one month back or forth (from
\* January to December of year - 1, from December to January of year + 1);
\* from the month reached, previous then next, and next then previous, lead
\* back to it.
C17_MonthNavigation ==
  [][Navigated =>
       /\ calMonth'[1] \in 0..11
       /\ 12 * calYear'[1] + calMonth'[1]
            \in {12 * calYear[1] + calMonth[1] - 1, 12 * calYear[1] + calMonth[1] + 1}
       /\ LET back == PrevMonth(calYear', calMonth')
              forth == NextMonth(calYear', calMonth')
          IN /\ NextMonth(back[1], back[2]) = <<calYear', calMonth'>>
             /\ PrevMonth(forth[1], forth[2]) = <<calYear', calMonth'>>]_vars

\* Previous-month clicks have led from February 2024 over January to
\* December 2023.
C17_Witness ==
  /\ ~calendarHidden
  /\ calYear = Num(2023) /\ calMonth = Num(11)
  /\ Len(calDays) = 5 + 31

\* Days from 1 January 2023, a Sunday, to the 1st of month m (1..12) of year y.
RECURSIVE DaysTo(_, _)
DaysTo(y, m) ==
  IF y = 2023 /\ m = 1 THEN 0
  ELSE IF m = 1 THEN DaysTo(y - 1, 12) + DaysInMonth(y - 1, 12)
  ELSE DaysTo(y, m - 1) + DaysInMonth(y, m - 1)

\* renderCalendar runs in this step on a year and a month: the panel is
\* opened, the month is changed, or snapshotToday returns with the panel open.
RenderStep ==
  /\ IsNum(calYear') /\ IsNum(calMonth') /\ ~calendarHidden'
  /\ \/ calendarHidden
     \/ procs' = procs /\ <<calYear, calMonth>>' # <<calYear, calMonth>>
     \/ \E p \in ProcIds : procs[p].pc = "snapshotSet" /\ procs'[p].kind = "idle"

\* C18: renderCalendar(year, month) produces as many empty cells as the
\* weekday index of the 1st of the month (0 = Sunday), then one cell per day
\* of the month in order; a day cell has has-data iff dailyHistory has an
\* entry for that date, all-done iff that entry's allDone is true, and today
\* iff its date is the current local date.
C18_RenderCalendar ==
  [][RenderStep =>
       LET y == calYear'[1]
           m == calMonth'[1] + 1
           w == DaysTo(y, m) % 7
           n == DaysInMonth(y, m)
       IN /\ Len(calDays') = w + n
          /\ \A i \in 1..w : "empty" \in calDays'[i].classes
          /\ \A d \in 1..n :
               LET cell == calDays'[w + d]
                   key == formatDate(<<y, m, d>>)
               IN /\ cell.day = d
                  /\ "empty" \notin cell.classes
                  /\ "has-data" \in cell.classes <=> key \in DOMAIN dailyHistory
                  /\ "all-done" \in cell.classes <=> IsAllDone(dailyHistory, key)
                  /\ "today" \in cell.classes <=> <<y, m, d>> = NewDate]_vars

\* November 2023, which starts on a Wednesday, is displayed: 3 empty cells,
\* then the cells of its 30 days.
C18_Witness ==
  /\ ~calendarHidden
  /\ calYear = Num(2023) /\ calMonth = Num(10)
  /\ Len(calDays) = 33
  /\ calDays[3] = EmptyCell
  /\ calDays[4].day = 1

\* February 2024 is displayed on the 28th with the entry of the 27th all-done
\* and today's entry not: the cells of both days have has-data, the 27th
\* all-done, the 28th today.
C18_WitnessData ==
  /\ ~calendarHidden
  /\ calYear = Num(2024) /\ calMonth = Num(1)
  /\ Len(calDays) = 4 + 29
  /\ calDays[4 + 27].classes = {"cal-day", "has-data", "all-done"}
  /\ calDays[4 + 28].classes = {"cal-day", "today", "has-data", "not-all-done"}

\* A cell of the grid has a click listener for a date that has no entry in
\* dailyHistory any more.
StaleCell ==
  /\ ~calendarHidden
  /\ \E i \in 1..Len(calDays) :
       calDays[i].click # <<>> /\ calDays[i].click \notin DOMAIN dailyHistory

\* C19: the day-detail popup is made visible, or its content changed, only by
\* showDayDetail on a date that has an entry in dailyHistory at that time
\* (a date with no entry leaves popup and overlay as they are); the overlay
\* is then visible too and the listed tasks are that entry's tasks, in order.
C19_PopupOnlyForEntry ==
  [][(dayDetail' # dayDetail /\ ~dayDetail'.popupHidden) =>
       /\ dayDetail'.date \in DOMAIN dailyHistory
       /\ ~dayDetail'.overlayHidden
       /\ LET entry == dailyHistory[dayDetail'.date]
          IN /\ Len(dayDetail'.tasks) = Len(entry.tasks)
             /\ \A i \in 1..Len(entry.tasks) :
                  /\ dayDetail'.tasks[i].text = entry.tasks[i].text
                  /\ dayDetail'.tasks[i].done = entry.tasks[i].done]_vars

\* The popup shows the one task of the first day's entry, while the grid
\* still has a cell with a listener for a date whose entry is gone.
C19_Witness ==
  /\ ~dayDetail.popupHidden /\ ~dayDetail.overlayHidden
  /\ dayDetail.date = formatDate(Epoch)
  /\ Len(dayDetail.tasks) = 1
  /\ StaleCell

\* No page handler is in progress: init and every mutation handler that was
\* started has run to completion.
Quiescent == \A p \in ProcIds : procs[p].kind = "idle"

\* C20: whenever no page handler is in progress and the stored dailyHistory
\* has an entry for today (so the last write was made today: no rollover
\* since), that entry is the (text, done) copy, in order, of the stored tasks
\* list, and its allDone is computed from that list.
C20_QuiescentConsistency ==
  (Quiescent /\ todayString \in DOMAIN loadHistory) =>
    /\ IsCopyOf(loadHistory[todayString], loadTasks)
    /\ loadHistory[todayString].allDone = AllDone(loadTasks)

\* The number of entries of the history with allDone = true.
AllDoneEntries == Cardinality({k \in DOMAIN dailyHistory : dailyHistory[k].allDone})

\* C21: the best run the ascending scan finds is already at least current,
\* so Math.max(best, current) returns the scan's value, and the result
\* satisfies current <= best <= number of all-done entries.
C21_ScanCoversCurrent ==
  streak # NoStreak =>
    /\ ScanBest(dailyHistory) >= streak.current
    /\ streak.best = ScanBest(dailyHistory)
    /\ streak.current <= streak.best
    /\ streak.best <= AllDoneEntries

\* C21 where every local day is 24 hours long.
C21_ScanCoversCurrentNoDst ==
  (streak # NoStreak /\ tz = NoDst) =>
    /\ ScanBest(dailyHistory) >= streak.current
    /\ streak.best = ScanBest(dailyHistory)

\* The bounds of C21 on the returned result, in every time zone.
C21_ResultBounds ==
  streak # NoStreak =>
    streak.current <= streak.best /\ streak.best <= AllDoneEntries

====
